---- MODULE Spec2Model ----
(***************************************************************************)
(* Model of the Vandal tracer of eth/tracers/logger/vandal.go: the event   *)
(* recorder (CaptureStart, CaptureState, Stop and the empty hooks) and the *)
(* trace segmenter GetResult with vandalBasicBlock.Split.                  *)
(*                                                                         *)
(* Conventions.  Trace positions, Entry and Exit are Go's 0-based indices; *)
(* marshalLogs is a TLA+ sequence, so the instruction at position g is     *)
(* marshalLogs[g + 1].  A *vandalLogMarshalling pointer is the position of *)
(* the instruction it points to.  A uint64 is written by its two's         *)
(* complement representative, so uint64(len(l.logs) - 1) of an empty trace *)
(* (2^64 - 1) is -1.                                                       *)
(***************************************************************************)
EXTENDS Integers, Sequences, FiniteSets, TLC

(* ---------------------------------------------------------------------- *)
(* Bounds                                                                 *)
(* ---------------------------------------------------------------------- *)
MaxLen == 3
\* largest Entry and largest number of instructions of a block given to Split
MaxEntry == 2
MaxOps == 4

(* ---------------------------------------------------------------------- *)
(* Opcodes (byte values of core/vm) and opcode kinds                      *)
(* ---------------------------------------------------------------------- *)
STOP == 0
ADD == 1
KECCAK256 == 32
ADDRESS == 48
BALANCE == 49
ORIGIN == 50
CALLER == 51
CALLVALUE == 52
CALLDATALOAD == 53
CALLDATASIZE == 54
CALLDATACOPY == 55
CODESIZE == 56
CODECOPY == 57
GASPRICE == 58
EXTCODESIZE == 59
EXTCODECOPY == 60
RETURNDATASIZE == 61
RETURNDATACOPY == 62
BLOCKHASH == 64
COINBASE == 65
TIMESTAMP == 66
NUMBER == 67
DIFFICULTY == 68
GASLIMIT == 69
SLOAD == 84
SSTORE == 85
MSTORE == 82
MSTORE8 == 83
PC == 88
MSIZE == 89
GAS == 90
PUSH1 == 96
PUSH32 == 127
CREATE == 240
CALL == 241
CALLCODE == 242
RETURN == 243
DELEGATECALL == 244
CREATE2 == 245
STATICCALL == 250
REVERT == 253
SELFDESTRUCT == 255

OpKindUnknown == 0
OpKindOne == 1
OpKindTwo == 2
OpKindThreeLoad == 3
OpKindThreeStoreOne == 4
OpKindThreeStoreTwo == 5
OpKindFour == 6
OpKindFive == 7

\* vm.OpCode.IsPush: the push family PUSH1..PUSH32.
IsPush(op) == PUSH1 <= op /\ op <= PUSH32

\* pcGap: the arithmetic op - vm.PUSH1 + 1 is done on the 8-bit OpCode type.
pcGap(op) == IF IsPush(op) THEN (op - PUSH1 + 1) % 256 ELSE 1

possiblyHalts(op) == op \in {STOP, REVERT, SELFDESTRUCT, RETURN}

GetKind(op) ==
  IF op \in {ADDRESS, ORIGIN, CALLER, CALLVALUE, CALLDATASIZE, CODESIZE,
             GASPRICE, RETURNDATASIZE, COINBASE, TIMESTAMP, NUMBER,
             DIFFICULTY, GASLIMIT, PC, MSIZE, GAS} THEN OpKindOne
  ELSE IF op \in {KECCAK256, BALANCE, CALLDATALOAD, EXTCODESIZE, BLOCKHASH}
    THEN OpKindTwo
  ELSE IF op \in {SLOAD} THEN OpKindThreeLoad
  ELSE IF op \in {SSTORE, MSTORE, MSTORE8} THEN OpKindThreeStoreOne
  ELSE IF op \in {CALLDATACOPY, CODECOPY, EXTCODECOPY, RETURNDATACOPY}
    THEN OpKindThreeStoreTwo
  ELSE IF op \in {CALL, CALLCODE, DELEGATECALL, STATICCALL} THEN OpKindFour
  ELSE IF op \in {CREATE, CREATE2} THEN OpKindFive
  ELSE OpKindUnknown

(* ---------------------------------------------------------------------- *)
(* Values                                                                 *)
(* ---------------------------------------------------------------------- *)
NilErr == "nil"
\* The errors Stop may be given, nil included.
StopErrs == {NilErr, "execution timeout", "aborted"}

NilEnv == "nil"
Envs == {"evm"}

NilValue == "nil"
NilBlock == <<"nil">>
ZeroAddress == "0x0"

\* The (pc, op, gas, cost, res) argument tuples CaptureState is called with.
StateArgs ==
  { [pc |-> 0,  op |-> PUSH1,   gas |-> 100, cost |-> 3,     res |-> <<>>],
    [pc |-> 2,  op |-> ADDRESS, gas |-> 97,  cost |-> 2,     res |-> <<>>],
    [pc |-> 3,  op |-> ADD,     gas |-> 95,  cost |-> 3,     res |-> <<>>],
    [pc |-> 5,  op |-> ADD,     gas |-> 92,  cost |-> 3,     res |-> <<>>],
    [pc |-> 10, op |-> ADDRESS, gas |-> 89,  cost |-> 2,     res |-> <<>>],
    [pc |-> 10, op |-> STOP,    gas |-> 80,  cost |-> 0,     res |-> <<>>],
    [pc |-> 11, op |-> ADD,     gas |-> 87,  cost |-> 3,     res |-> <<>>],
    [pc |-> 11, op |-> CREATE,  gas |-> 86,  cost |-> 32000, res |-> <<>>],
    [pc |-> 50, op |-> ADDRESS, gas |-> 60,  cost |-> 2,     res |-> <<>>],
    [pc |-> 50, op |-> CALL,    gas |-> 59,  cost |-> 700,   res |-> <<1>>] }

\* vandalLog with gas and cost exchanged.
vandalLogSwapped(pc, op, gas, cost, res) ==
  [Pc |-> pc, Op |-> op, Gas |-> cost, Cost |-> gas, Ret |-> res,
   Value |-> NilValue]

\* vandalLog as CaptureState builds it; Value is never set.
vandalLog(pc, op, gas, cost, res) ==
  [Pc |-> pc, Op |-> op, Gas |-> gas, Cost |-> cost, Ret |-> res,
   Value |-> NilValue]

(* ---------------------------------------------------------------------- *)
(* State                                                                  *)
(* ---------------------------------------------------------------------- *)
VARIABLES
  env,        \* VandalLogger.env
  logs,       \* VandalLogger.logs
  reason,     \* VandalLogger.reason
  interrupt,  \* VandalLogger.interrupt
  CallStack,  \* VandalLogger.CallStack
  csPc,       \* position of the VM thread inside CaptureState
  stopPc,     \* position of the supervising thread inside Stop
  ret,        \* the value GetResult returned, while it is the latest step
  dropped     \* history: some CaptureState call returned at the flag check

vars ==
  <<env, logs, reason, interrupt, CallStack, csPc, stopPc, ret, dropped>>

NoRet == [call |-> "none"]

(* ---------------------------------------------------------------------- *)
(* Go slices.  Only the len-visible part of a slice is modelled: the       *)
(* blocks share backing arrays, but every block already appended to        *)
(* `blocks` sees positions below its own len only, and later appends write *)
(* at or above that len.                                                   *)
(* ---------------------------------------------------------------------- *)
\* s[:k]
SliceTo(s, k) == SubSeq(s, 1, k)
\* s[k:]
SliceFrom(s, k) == SubSeq(s, k + 1, Len(s))

\* The address of the variable `current` and of the local `new` of the
\* Split call with the given entry.
CurrentRef == <<"current">>
NewRef(entry) == <<"new", entry>>

\* op.Block = ref for every op of ops
SetBlock(m, ops, ref) ==
  [p \in 1..Len(m) |->
     IF \E k \in 1..Len(ops) : ops[k] + 1 = p
       THEN [m[p] EXCEPT !.Block = ref] ELSE m[p]]

(***************************************************************************)
(* vandalBasicBlock.Split, called on `current` (bb = &current) with the    *)
(* instruction table m.  The statements are applied in the order of the    *)
(* source: bb.Ops is cut first and new.Ops is then sliced from the cut     *)
(* bb.Ops.  inLen tells that both slice bounds lie within len(bb.Ops).     *)
(***************************************************************************)
Split(bb, entry, m) ==
  LET new0  == [Entry |-> entry, Exit |-> bb.Exit, Ops |-> <<>>,
                Address |-> bb.Address]
      off   == entry - bb.Entry
      bb1   == [bb EXCEPT !.Exit = entry - 1]
      bb2   == [bb1 EXCEPT !.Ops = SliceTo(bb1.Ops, off)]
      new1  == [new0 EXCEPT !.Ops = SliceFrom(bb2.Ops, off)]
      m1    == SetBlock(m, new1.Ops, NewRef(entry))
      m2    == SetBlock(m1, bb2.Ops, CurrentRef)
  IN [bb |-> bb2, new |-> new1, m |-> m2,
      inLen |-> (0 <= off /\ off <= Len(bb.Ops))]

(* ---------------------------------------------------------------------- *)
(* GetResult: annotation pass (lines 130-144)                             *)
(* ---------------------------------------------------------------------- *)
RECURSIVE AnnotationPass(_, _)
\* the state [marshalLogs, callIndex] after the first n iterations
AnnotationPass(ls, n) ==
  IF n = 0 THEN [marshalLogs |-> <<>>, callIndex |-> 0]
  ELSE LET a   == AnnotationPass(ls, n - 1)
           i   == n - 1
           log == ls[n]
           ci  == IF log.Pc = 0 /\ i # 0 THEN a.callIndex + 1
                                         ELSE a.callIndex
       IN [marshalLogs |->
             Append(a.marshalLogs,
                    [Pc |-> log.Pc, Op |-> log.Op, Gas |-> log.Gas,
                     Cost |-> log.Cost, Depth |-> 0, CallIndex |-> ci,
                     Ret |-> log.Ret, Value |-> log.Value,
                     Block |-> NilBlock]),
           callIndex |-> ci]

(* ---------------------------------------------------------------------- *)
(* GetResult: segmentation pass (lines 146-173)                           *)
(* ---------------------------------------------------------------------- *)
\* log.Pc - marshalLogs[i-1].Pc == uint64(pcGap(..)) in uint64 arithmetic:
\* a difference that wraps is at least 2^64 - (largest pc), never a gap.
GapIs(pc, prevPc, gap) == pc >= prevPc /\ pc - prevPc = gap

\* lines 158-160, the condition inside !( ... )
Continues(m, i) ==
  /\ m[i].CallIndex = m[i + 1].CallIndex
  /\ GapIs(m[i + 1].Pc, m[i].Pc, pcGap(m[i].Op))
  /\ ~possiblyHalts(m[i].Op)

\* lines 171-172
Restamp(m, i, depth, callIndex) ==
  [m EXCEPT ![i + 1] = [@ EXCEPT !.Depth = depth, !.CallIndex = callIndex]]

\* lines 153-156 and 162-165: depth--, Split, append, current = new.
\* news keeps the `new` objects of the Split calls, which &new refers to.
SplitHere(st, i) ==
  LET sp == Split(st.current, i, st.marshalLogs)
  IN [st EXCEPT !.depth = st.depth - 1,
                !.blocks = Append(st.blocks, sp.bb),
                !.current = sp.new,
                !.news = Append(st.news, sp.new),
                !.marshalLogs = sp.m,
                !.status = IF sp.inLen THEN st.status ELSE "beyond len"]

\* The block a Block pointer refers to in loop state st: the present value
\* of the variable `current`, or the `new` object of the Split call that
\* made it.
Deref(st, ref) ==
  IF ref = CurrentRef THEN st.current
  ELSE LET k == CHOOSE j \in 1..Len(st.news) : st.news[j].Entry = ref[2]
       IN st.news[k]

\* One iteration of the loop for position i of n, from loop state st.
SegStep(st, i, n, callIndex) ==
  LET st1 == [st EXCEPT !.marshalLogs[i + 1].Block = CurrentRef,
                        !.current.Ops = Append(st.current.Ops, i)]
      log == st1.marshalLogs[i + 1]
      st2 ==
        IF log.Pc = 0 /\ i = 0 THEN [st1 EXCEPT !.depth = 1]
        ELSE IF log.Pc = 0 THEN SplitHere(st1, i)
        ELSE IF GetKind(log.Op) = OpKindOne \/ GetKind(log.Op) = OpKindFive
          THEN IF i = 0
                 \* marshalLogs[i-1] with i = 0: index out of range
                 THEN [st1 EXCEPT !.status = "panic"]
                 ELSE IF ~Continues(st1.marshalLogs, i)
                        THEN SplitHere(st1, i) ELSE st1
        ELSE IF i = n - 1
          THEN [st1 EXCEPT !.blocks = Append(st1.blocks, st1.current)]
        ELSE st1
  IN IF st2.status # "running" THEN st2
     ELSE [st2 EXCEPT !.marshalLogs =
                        Restamp(st2.marshalLogs, i, st2.depth, callIndex)]

RECURSIVE SegLoop(_, _)
\* the loop state after the first k iterations (fewer if one panicked)
SegLoop(ls, k) ==
  IF k = 0
    THEN [blocks |-> <<>>,
          current |-> [Entry |-> 0, Exit |-> Len(ls) - 1, Ops |-> <<>>,
                       Address |-> ZeroAddress],
          depth |-> 0,
          news |-> <<>>,
          marshalLogs |-> AnnotationPass(ls, Len(ls)).marshalLogs,
          status |-> "running"]
    ELSE LET st == SegLoop(ls, k - 1)
         IN IF st.status # "running" THEN st
            ELSE SegStep(st, k - 1, Len(ls),
                         AnnotationPass(ls, Len(ls)).callIndex)

\* json.Marshal(blocks): the instructions are read through their pointers
\* when the loop is over; Block is not serialised.  At is the trace position
\* the pointer refers to (not part of the JSON).
OutOp(m, p) ==
  [Pc |-> m[p + 1].Pc, Op |-> m[p + 1].Op, Gas |-> m[p + 1].Gas,
   Cost |-> m[p + 1].Cost, Depth |-> m[p + 1].Depth,
   CallIndex |-> m[p + 1].CallIndex, Ret |-> m[p + 1].Ret,
   Value |-> m[p + 1].Value, At |-> p]

OutBlock(m, b) ==
  [Entry |-> b.Entry, Exit |-> b.Exit,
   Ops |-> [k \in 1..Len(b.Ops) |-> OutOp(m, b.Ops[k])],
   Address |-> b.Address]

\* FinalBlocks that emits the open block when no block was appended.
FinalBlocksOrCurrent(st) ==
  IF st.blocks = <<>> THEN <<st.current>> ELSE st.blocks

\* line 175: the block list that is marshalled
FinalBlocks(st) == st.blocks

Marshal(st) ==
  LET bs == FinalBlocks(st)
  IN [k \in 1..Len(bs) |-> OutBlock(st.marshalLogs, bs[k])]

NilJSON == "nil"

\* lines 122-175: the value of GetResult() when l.reason is nil
Segmented(ls) ==
  LET st == SegLoop(ls, Len(ls))
  IN IF st.status = "running"
       THEN [call |-> "GetResult", status |-> "ok",
             blocks |-> Marshal(st), err |-> NilErr]
       ELSE [call |-> "GetResult", status |-> st.status,
             blocks |-> NilJSON, err |-> NilErr]

\* GetResult without the check of l.reason.
GetResultValueUnchecked(ls, rsn) == Segmented(ls)

\* The value of GetResult() for l.logs = ls and l.reason = rsn.
GetResultValue(ls, rsn) ==
  IF rsn # NilErr
    THEN [call |-> "GetResult", status |-> "err", blocks |-> NilJSON,
          err |-> rsn]
    ELSE Segmented(ls)

(* ---------------------------------------------------------------------- *)
(* The tracer.  The VM thread calls CaptureStart, CaptureState, the empty  *)
(* hooks and GetResult one after the other; Stop runs on another thread.   *)
(* CaptureState and Stop are taken statement by statement, so that the two *)
(* threads interleave between the flag check and the append, and between   *)
(* the store of the reason and the store of the flag.                      *)
(* ---------------------------------------------------------------------- *)
\* NewVandalTracer: &VandalLogger{}
Init ==
  /\ env = NilEnv
  /\ logs = <<>>
  /\ reason = NilErr
  /\ interrupt = FALSE
  /\ CallStack = <<>>
  /\ csPc = "idle"
  /\ stopPc = "idle"
  /\ ret = NoRet
  /\ dropped = FALSE

\* CaptureStart that also clears what the previous execution accumulated.
CaptureStartReset(e) ==
  /\ csPc = "idle"
  /\ env' = e
  /\ CallStack' = <<>>
  /\ logs' = <<>>
  /\ reason' = NilErr
  /\ interrupt' = FALSE
  /\ ret' = NoRet
  /\ UNCHANGED <<csPc, stopPc, dropped>>

CaptureStart(e) ==
  /\ csPc = "idle"
  /\ env' = e
  /\ CallStack' = <<>>
  /\ ret' = NoRet
  /\ UNCHANGED <<logs, reason, interrupt, csPc, stopPc, dropped>>

\* CaptureState without the check of the flag.
CaptureStateLoadUnchecked ==
  /\ csPc = "idle"
  /\ Len(logs) < MaxLen
  /\ csPc' = "append"
  /\ ret' = NoRet
  /\ UNCHANGED <<env, logs, reason, interrupt, CallStack, stopPc, dropped>>

\* line 79: the flag is loaded; the call returns when it is set
CaptureStateLoad ==
  /\ csPc = "idle"
  /\ interrupt \/ Len(logs) < MaxLen
  /\ csPc' = IF interrupt THEN "idle" ELSE "append"
  /\ dropped' = (dropped \/ interrupt)
  /\ ret' = NoRet
  /\ UNCHANGED <<env, logs, reason, interrupt, CallStack, stopPc>>

\* lines 83-91: the event is built from the arguments and appended
CaptureStateAppend(a) ==
  /\ csPc = "append"
  /\ logs' = Append(logs, vandalLog(a.pc, a.op, a.gas, a.cost, a.res))
  /\ csPc' = "idle"
  /\ ret' = NoRet
  /\ UNCHANGED <<env, reason, interrupt, CallStack, stopPc, dropped>>

\* CaptureEnter, CaptureExit, CaptureFault, CaptureEnd, CaptureTxStart and
\* CaptureTxEnd have empty bodies.
EmptyHook ==
  /\ csPc = "idle"
  /\ ret' = NoRet
  /\ UNCHANGED <<env, logs, reason, interrupt, CallStack, csPc, stopPc,
                 dropped>>

CaptureEnter == EmptyHook
CaptureExit == EmptyHook
CaptureFault == EmptyHook
CaptureEnd == EmptyHook
CaptureTxStart == EmptyHook
CaptureTxEnd == EmptyHook

GetResult ==
  /\ csPc = "idle"
  /\ ret' = GetResultValue(logs, reason)
  /\ UNCHANGED <<env, logs, reason, interrupt, CallStack, csPc, stopPc,
                 dropped>>

\* Stop that stores the flag before the reason.
StopStoreFlagFirst(err) ==
  /\ stopPc = "idle"
  /\ interrupt' = TRUE
  /\ stopPc' = "flag"
  /\ ret' = NoRet
  /\ UNCHANGED <<env, logs, reason, CallStack, csPc, dropped>>

\* line 180
StopStoreReason(err) ==
  /\ stopPc = "idle"
  /\ reason' = err
  /\ stopPc' = "flag"
  /\ ret' = NoRet
  /\ UNCHANGED <<env, logs, interrupt, CallStack, csPc, dropped>>

\* line 181
StopStoreFlag ==
  /\ stopPc = "flag"
  /\ interrupt' = TRUE
  /\ stopPc' = "idle"
  /\ ret' = NoRet
  /\ UNCHANGED <<env, logs, reason, CallStack, csPc, dropped>>

(* ---------------------------------------------------------------------- *)
(* The functions pcGap and Split applied to arguments of their own         *)
(* ---------------------------------------------------------------------- *)
\* vm.OpCode is a byte
OpCodes == 0..255

ApplyPcGap(op) ==
  /\ ret' = [call |-> "pcGap", op |-> op, gap |-> pcGap(op)]
  /\ UNCHANGED <<env, logs, reason, interrupt, CallStack, csPc, stopPc,
                 dropped>>

\* A block with the given Entry holding the k instructions at positions
\* entry .. entry + k - 1, and the instructions up to there, all of them
\* pointing to the block.
BlockOf(entry, k) ==
  [Entry |-> entry, Exit |-> entry + k - 1,
   Ops |-> [j \in 1..k |-> entry + j - 1], Address |-> ZeroAddress]

InstructionsOf(entry, k) ==
  [p \in 1..(entry + k) |->
     [Pc |-> p - 1, Op |-> ADD, Gas |-> 0, Cost |-> 0, Depth |-> 0,
      CallIndex |-> 0, Ret |-> <<>>, Value |-> NilValue,
      Block |-> CurrentRef]]

ApplySplit(entry, k, b) ==
  /\ ret' = [call |-> "Split", old |-> BlockOf(entry, k), entry |-> b,
             out |-> Split(BlockOf(entry, k), b, InstructionsOf(entry, k))]
  /\ UNCHANGED <<env, logs, reason, interrupt, CallStack, csPc, stopPc,
                 dropped>>

NextFunctions ==
  \/ \E op \in OpCodes : ApplyPcGap(op)
  \/ \E entry \in 0..MaxEntry : \E k \in 2..MaxOps :
        \E b \in (entry + 1)..(entry + k - 1) : ApplySplit(entry, k, b)

SpecFunctions == Init /\ [][NextFunctions]_vars

Next ==
  \/ \E e \in Envs : CaptureStart(e)
  \/ CaptureStateLoad
  \/ \E a \in StateArgs : CaptureStateAppend(a)
  \/ CaptureEnter
  \/ CaptureExit
  \/ CaptureFault
  \/ CaptureEnd
  \/ CaptureTxStart
  \/ CaptureTxEnd
  \/ GetResult
  \/ \E err \in StopErrs : StopStoreReason(err)
  \/ StopStoreFlag

Spec == Init /\ [][Next]_vars

\* The tracer when every Stop call is given an error.
NonNilErrs == StopErrs \ {NilErr}

NextNonNil ==
  \/ \E e \in Envs : CaptureStart(e)
  \/ CaptureStateLoad
  \/ \E a \in StateArgs : CaptureStateAppend(a)
  \/ CaptureEnter
  \/ CaptureExit
  \/ CaptureFault
  \/ CaptureEnd
  \/ CaptureTxStart
  \/ CaptureTxEnd
  \/ GetResult
  \/ \E err \in NonNilErrs : StopStoreReason(err)
  \/ StopStoreFlag

SpecNonNil == Init /\ [][NextNonNil]_vars

(* ---------------------------------------------------------------------- *)
(* Vocabulary of the properties                                           *)
(* ---------------------------------------------------------------------- *)
\* GetResult has just returned: ret is its value for the present l.logs
\* and l.reason.
Returned == ret.call = "GetResult"
ReturnedOk == Returned /\ ret.status = "ok"

\* Stop has not been called.
NoCancellation == ~interrupt /\ stopPc = "idle" /\ reason = NilErr

N == Len(logs)

RECURSIVE ConcatOps(_, _)
\* the Ops lists of the first k blocks, concatenated in block order
ConcatOps(bs, k) ==
  IF k = 0 THEN <<>> ELSE ConcatOps(bs, k - 1) \o bs[k].Ops

OutputOps == ConcatOps(ret.blocks, Len(ret.blocks))

\* the recorded event an output instruction carries
EventOf(o) ==
  [Pc |-> o.Pc, Op |-> o.Op, Gas |-> o.Gas, Cost |-> o.Cost, Ret |-> o.Ret,
   Value |-> o.Value]

\* number of positions j with 1 <= j <= i whose program counter is 0
ReEntriesUpTo(i) == Cardinality({j \in 1..i : logs[j + 1].Pc = 0})

\* the width of an opcode as the claims use it: 1, and n + 1 for the push
\* of n immediate bytes
Width(op) == IF IsPush(op) THEN (op - PUSH1 + 1) + 1 ELSE 1

\* the instruction at position i >= 1 falls through from position i - 1
Sequential(i) ==
  /\ logs[i + 1].Pc = logs[i].Pc + Width(logs[i].Op)
  /\ ~possiblyHalts(logs[i].Op)

ReadOrCreate(op) == GetKind(op) \in {OpKindOne, OpKindFive}

(* ---------------------------------------------------------------------- *)
(* C1..C10                                                                *)
(* ---------------------------------------------------------------------- *)

\* C1 (partition): with no cancellation, the Ops lists of the blocks
\* GetResult returns, concatenated in block order, are exactly the N
\* recorded events in their original order, each position once.
C1_Partition ==
  (ReturnedOk /\ NoCancellation) =>
     /\ Len(OutputOps) = N
     /\ \A k \in 1..Len(OutputOps) :
          OutputOps[k].At = k - 1 /\ EventOf(OutputOps[k]) = logs[k]

\* C2 (contiguity): for a non-empty trace with no cancellation the first
\* block's Entry is 0, the last block's Exit is N - 1 and adjacent blocks
\* B, B' have B.Exit + 1 = B'.Entry.
C2_Contiguity ==
  (ReturnedOk /\ NoCancellation /\ N > 0) =>
     /\ Len(ret.blocks) >= 1
     /\ ret.blocks[1].Entry = 0
     /\ ret.blocks[Len(ret.blocks)].Exit = N - 1
     /\ \A k \in 1..(Len(ret.blocks) - 1) :
          ret.blocks[k].Exit + 1 = ret.blocks[k + 1].Entry

\* C3, as claimed: once a Stop call has completed, GetResult returns the
\* stored reason as its error and no block data.
C3_AnyStopShortCircuits ==
  (Returned /\ interrupt) =>
     /\ ret.status = "err"
     /\ ret.err = reason
     /\ ret.blocks = NilJSON

\* C3, amended: when the reason stored by the most recent Stop call is not
\* nil, GetResult returns that reason as its error and no block data,
\* however many events were recorded.
C3_StopShortCircuits ==
  (Returned /\ reason # NilErr) =>
     /\ ret.status = "err"
     /\ ret.err = reason
     /\ ret.blocks = NilJSON

\* C3 witness: GetResult has returned the reason after a completed Stop,
\* with events recorded before it.
C3_Witness ==
  /\ Returned
  /\ interrupt
  /\ stopPc = "idle"
  /\ N >= 2
  /\ ret.status = "err"
  /\ ret.err = "execution timeout"

\* C4 (call index): the CallIndex of the output instruction at trace
\* position i is the number of positions j, 1 <= j <= i, whose program
\* counter is 0.
C4_CallIndex ==
  ReturnedOk =>
     \A k \in 1..Len(OutputOps) :
        OutputOps[k].CallIndex = ReEntriesUpTo(OutputOps[k].At)

\* C5 (depth non-negativity): every output instruction has Depth >= 0 and
\* the depth counter is never below 0 during segmentation.
C5_DepthNonNegative ==
  ReturnedOk =>
     /\ \A k \in 0..N : SegLoop(logs, k).depth >= 0
     /\ \A k \in 1..Len(OutputOps) : OutputOps[k].Depth >= 0

\* C6 (re-entry split): every position i >= 1 whose program counter is 0
\* starts a new output block: a block with Exit i - 1 ending with event
\* i - 1 is immediately followed by a block with Entry i starting with
\* event i.
C6_ReEntrySplit ==
  ReturnedOk =>
     \A i \in 1..(N - 1) :
        logs[i + 1].Pc = 0 =>
          \E k \in 1..(Len(ret.blocks) - 1) :
             /\ ret.blocks[k].Exit = i - 1
             /\ Len(ret.blocks[k].Ops) >= 1
             /\ ret.blocks[k].Ops[Len(ret.blocks[k].Ops)].At = i - 1
             /\ ret.blocks[k + 1].Entry = i
             /\ Len(ret.blocks[k + 1].Ops) >= 1
             /\ ret.blocks[k + 1].Ops[1].At = i

\* C7 (discontinuity): when a ContextRead instruction A at program counter
\* 10 (width 1) is followed by an instruction B of any kind at a program
\* counter p with p - 10 # 1, the output is split at B's position (a block
\* ends with A, the next block starts with B) and B's Depth is A's Depth
\* minus 1.
C7_Discontinuity ==
  ReturnedOk =>
     \A i \in 0..(N - 2) :
        ( /\ GetKind(logs[i + 1].Op) = OpKindOne
          /\ logs[i + 1].Pc = 10
          /\ Width(logs[i + 1].Op) = 1
          /\ logs[i + 2].Pc - 10 # 1 ) =>
          \E k \in 1..(Len(ret.blocks) - 1) :
             LET b == ret.blocks[k]
                 c == ret.blocks[k + 1]
             IN /\ b.Exit = i
                /\ c.Entry = i + 1
                /\ Len(b.Ops) >= 1
                /\ Len(c.Ops) >= 1
                /\ b.Ops[Len(b.Ops)].At = i
                /\ c.Ops[1].At = i + 1
                /\ c.Ops[1].Depth = b.Ops[Len(b.Ops)].Depth - 1

\* C8 (single block): a non-empty trace with no program counter 0 after
\* position 0 and every ContextRead/CreateLike instruction falling through
\* from its predecessor yields exactly one block, Entry 0, Exit N - 1,
\* holding all N instructions.
C8_SingleBlock ==
  ( /\ ReturnedOk
    /\ N > 0
    /\ \A i \in 1..(N - 1) :
          /\ logs[i + 1].Pc # 0
          /\ ReadOrCreate(logs[i + 1].Op) => Sequential(i) ) =>
     /\ Len(ret.blocks) = 1
     /\ ret.blocks[1].Entry = 0
     /\ ret.blocks[1].Exit = N - 1
     /\ Len(ret.blocks[1].Ops) = N
     /\ \A k \in 1..Len(ret.blocks[1].Ops) : ret.blocks[1].Ops[k].At = k - 1

\* a non-empty trace of non-call, non-create, non-halting instructions,
\* each program counter advancing by the width of the predecessor
SingleScope ==
  /\ N > 0
  /\ \A k \in 1..N :
        /\ GetKind(logs[k].Op) \notin {OpKindFour, OpKindFive}
        /\ ~possiblyHalts(logs[k].Op)
  /\ \A i \in 1..(N - 1) : logs[i + 1].Pc = logs[i].Pc + Width(logs[i].Op)

\* C9 (single-scope depth): in a single-scope trace depth becomes 1 at the
\* first instruction and stays 1, and every output instruction has Depth 1
\* and CallIndex 0.  Stated for the traces that start at program counter 0,
\* the start of every scope.
C9_SingleScopeDepth ==
  (ReturnedOk /\ SingleScope /\ logs[1].Pc = 0) =>
     /\ \A k \in 1..N : SegLoop(logs, k).depth = 1
     /\ \A k \in 1..Len(OutputOps) :
           OutputOps[k].Depth = 1 /\ OutputOps[k].CallIndex = 0

\* C10 (empty trace): with nothing recorded and no reason stored,
\* GetResult succeeds with an empty block sequence.
C10_EmptyTrace ==
  (Returned /\ reason = NilErr /\ N = 0) =>
     /\ ret.status = "ok"
     /\ ret.err = NilErr
     /\ ret.blocks = <<>>

\* C10 witness: GetResult has returned on a tracer that recorded nothing
\* and was never stopped.
C10_Witness ==
  /\ ReturnedOk
  /\ NoCancellation
  /\ N = 0
  /\ ret.blocks = <<>>

(* ---------------------------------------------------------------------- *)
(* C11..C20                                                               *)
(* ---------------------------------------------------------------------- *)

CompleteEvents ==
  { vandalLog(a.pc, a.op, a.gas, a.cost, a.res) : a \in StateArgs }

\* C12 (record/cancel atomicity): a step that changes the recorded sequence
\* is the append of a CaptureState call whose flag check passed and adds
\* exactly one complete event at the end; a call that starts when the flag
\* is set (in particular after Stop has returned) returns at the check and
\* never reaches the append.
C12_Atomicity ==
  [][ /\ logs' # logs =>
           /\ csPc = "append" /\ csPc' = "idle"
           /\ Len(logs') = Len(logs) + 1
           /\ SubSeq(logs', 1, Len(logs)) = logs
           /\ logs'[Len(logs')] \in CompleteEvents
      /\ (csPc = "idle" /\ interrupt) => csPc' = "idle"
      /\ (csPc = "idle" /\ csPc' = "append") => ~interrupt ]_vars

\* C12 witness: Stop ran completely between the flag check and the append
\* of a CaptureState call.
C12_Witness ==
  /\ csPc = "append"
  /\ interrupt
  /\ stopPc = "idle"
  /\ reason # NilErr

\* C13 (start resets everything): after every CaptureStart the recorded
\* sequence is empty, no reason is stored and the interrupt flag is clear.
C13_StartResets ==
  [][ (\E e \in Envs : CaptureStart(e)) =>
         /\ logs' = <<>>
         /\ reason' = NilErr
         /\ interrupt' = FALSE ]_vars

\* C14 (totality): with no reason stored, GetResult returns a block
\* sequence for every recorded event sequence; it never aborts with an
\* index or a slice bound out of range.
C14_Total ==
  (Returned /\ reason = NilErr) => ret.status = "ok"

\* C15 (opcode width): pcGap(op) is 1 for every non-push opcode and n + 1
\* for the push of n immediate bytes.
C15_PcGap ==
  ret.call = "pcGap" => ret.gap = Width(ret.op)

\* C18 (split): Split(b) on a block of k instructions with
\* Entry < b < Entry + k returns a block with Entry b, the old Exit, the
\* same Address and the suffix of the old Ops from offset b - Entry, and
\* leaves the block with Exit b - 1 and the prefix before that offset; the
\* two lists together are the k original instructions.
C18_Split ==
  ret.call = "Split" =>
     LET off == ret.entry - ret.old.Entry
     IN /\ ret.out.new.Entry = ret.entry
        /\ ret.out.new.Exit = ret.old.Exit
        /\ ret.out.new.Address = ret.old.Address
        /\ ret.out.new.Ops = SubSeq(ret.old.Ops, off + 1, Len(ret.old.Ops))
        /\ ret.out.bb.Exit = ret.entry - 1
        /\ ret.out.bb.Ops = SubSeq(ret.old.Ops, 1, off)
        /\ ret.out.bb.Ops \o ret.out.new.Ops = ret.old.Ops

\* C16 (recording is append-only and verbatim): the append of a
\* CaptureState call with arguments (pc, op, gas, cost, res) adds exactly
\* the event carrying these five values at the end of the sequence and
\* leaves the earlier entries as they were; a call that finds the flag
\* clear goes on to the append; and a step of any other call than
\* CaptureState and Stop (CaptureEnter, CaptureExit, CaptureFault,
\* CaptureEnd, CaptureTxStart, CaptureTxEnd among them) leaves the
\* sequence, the reason and the flag unchanged.
C16_Verbatim ==
  [][ /\ \A a \in StateArgs :
           CaptureStateAppend(a) =>
              /\ Len(logs') = Len(logs) + 1
              /\ \A k \in 1..Len(logs) : logs'[k] = logs[k]
              /\ logs'[Len(logs')].Pc = a.pc
              /\ logs'[Len(logs')].Op = a.op
              /\ logs'[Len(logs')].Gas = a.gas
              /\ logs'[Len(logs')].Cost = a.cost
              /\ logs'[Len(logs')].Ret = a.res
      /\ (CaptureStateLoad /\ ~interrupt) => csPc' = "append"
      /\ (csPc' = csPc /\ stopPc' = stopPc) =>
            UNCHANGED <<logs, reason, interrupt>> ]_vars

\* C16 witness: two events were recorded one after the other and stand in
\* the sequence with the values they were given.
C16_Witness ==
  /\ N = 2
  /\ csPc = "idle"
  /\ ~interrupt
  /\ logs[1] = [Pc |-> 0, Op |-> PUSH1, Gas |-> 100, Cost |-> 3,
                Ret |-> <<>>, Value |-> NilValue]
  /\ logs[2] = [Pc |-> 50, Op |-> CALL, Gas |-> 59, Cost |-> 700,
                Ret |-> <<1>>, Value |-> NilValue]

\* the continuation predicate of the claims at position i >= 1: positions
\* i - 1 and i lie in the same call scope, the program counter advances by
\* the width of opcode i - 1, and opcode i - 1 does not halt
ContinuationPredicate(i) ==
  /\ ReEntriesUpTo(i - 1) = ReEntriesUpTo(i)
  /\ Sequential(i)

\* the loop iteration for position i closes one more block and decrements
\* depth by 1
SplitsAt(i) ==
  /\ Len(SegLoop(logs, i + 1).blocks) = Len(SegLoop(logs, i).blocks) + 1
  /\ SegLoop(logs, i + 1).depth = SegLoop(logs, i).depth - 1

\* C17 (continuation predicate): at a position i >= 1 with program counter
\* # 0 and a ContextRead or CreateLike opcode, GetResult splits and
\* decrements depth exactly when the continuation predicate is false; a
\* sequential fall-through within one call scope causes no split.
C17_Continuation ==
  ReturnedOk =>
     \A i \in 1..(N - 1) :
        (logs[i + 1].Pc # 0 /\ ReadOrCreate(logs[i + 1].Op)) =>
           (SplitsAt(i) <=> ~ContinuationPredicate(i))

\* number of times the pointer x occurs in ops
Occurrences(x, ops) == Cardinality({j \in 1..Len(ops) : ops[j] = x})

\* C19 (back-reference consistency): after every iteration of the
\* segmentation loop, the block that x.Block refers to lists x exactly
\* once, for every instruction x processed so far.
C19_BackReference ==
  ReturnedOk =>
     \A k \in 1..N : \A x \in 0..(k - 1) :
        LET st == SegLoop(logs, k)
        IN Occurrences(x, Deref(st, st.marshalLogs[x + 1].Block).Ops) = 1

\* C20 (reason before flag): when every Stop is given a non-nil reason, in
\* every state of every interleaving of Stop and CaptureState the flag is
\* set only if a reason is stored; hence, once a CaptureState call has
\* dropped an event, GetResult returns the failure and no block list.
C20_ReasonBeforeFlag ==
  /\ interrupt => reason # NilErr
  /\ (Returned /\ dropped) =>
        /\ ret.status = "err"
        /\ ret.err = reason
        /\ ret.blocks = NilJSON

\* C20 witness: an event was recorded, a later CaptureState call was
\* dropped, and GetResult has returned the failure.
C20_Witness ==
  /\ Returned
  /\ dropped
  /\ N >= 1
  /\ ret.status = "err"
  /\ ret.err # NilErr

====
